---- MODULE Spec2Model ----
(***************************************************************************)
(* A model of the GRABIT backend's orchestration-and-broadcast core:       *)
(*   - the Broadcast Hub        (src/websocket.py, ConnectionManager)      *)
(*   - the Task Orchestrator    (src/download.py, DownloadOrchestrator)    *)
(*   - the Bounded Batch Executor                                          *)
(*                   (src/download.py, _download_requests_with_isolation)  *)
(*                                                                         *)
(* Scheduling model.  The program runs on one asyncio event loop: a        *)
(* coroutine runs without interruption until it awaits something that is   *)
(* not ready.  One action of the model is one such uninterrupted segment.  *)
(* The suspension points of the code are                                   *)
(*   - a call into the external processor (extract / download), which is   *)
(*     dispatched to a worker thread,                                      *)
(*   - asyncio.gather in _broadcast_to_connections, which creates one      *)
(*     child task per target connection and waits for all of them,         *)
(*   - the semaphore of the batch executor, the as_completed queue,        *)
(*   - websocket.accept() and websocket.receive_text(),                    *)
(*   - the heartbeat's sleep.                                              *)
(* A broadcast for a task that has no subscriber returns without           *)
(* suspending, so the publisher's segment continues through it.            *)
(* The child tasks of the fan-outs are run by the loop in the order they   *)
(* were created (the loop's ready queue is FIFO): sendq keeps the fan-outs *)
(* in flight in creation order and only the oldest one makes progress.     *)
(* Task.cancel() on a coroutine that waits in a gather cancels the         *)
(* children that have not run yet.                                         *)
(***************************************************************************)
EXTENDS Integers, Sequences, FiniteSets, TLC

\* ------------------------------------------------------------------ bounds
\* websocket objects that exist
NConns == 3
\* websocket objects whose clients connect in the hub specification
NSubs == 2
\* task ids a client can name in subscribe / that submit can generate
NTasks == 1
\* client messages the connection handlers process, all connections together
MaxMsgs == 2
\* publishes of the hub-only specification (publisher calls and heartbeats)
MaxPubs == 2

\* config.WS_MAX_CONNECTIONS: read from the environment (default 100); the
\* model runs the configuration WS_MAX_CONNECTIONS=2
WS_MAX_CONNECTIONS == 2

Conns == 1..NConns
HubConns == 1..NSubs
TaskIds == 1..NTasks
NoTask == 0

VARIABLES
    \* ---- ConnectionManager (src/websocket.py)
    active_connections,   \* self.active_connections: set of websockets
    task_subscribers,     \* self.task_subscribers: dict task id -> set of websockets
    connection_count,     \* self.connection_count: lifetime counter
    sendq,                \* fan-outs in flight (gather children not yet run), oldest first
    hbpub,                \* the heartbeat coroutine: the publish it is waiting for (0: sleeping)
    \* ---- one handle_websocket_connection coroutine per websocket
    hpc,                  \* "idle" | "accept" | "loop" | "rejected" | "exit"
    nmsg,                 \* client messages processed by the handlers so far
    \* ---- the environment: the client side of each websocket
    wire,                 \* "open" | "closed"
    rx,                   \* what the client has received, in order
    want,                 \* the tasks the client has subscribed to and not unsubscribed from
    \* ---- DownloadOrchestrator (src/download.py)
    active_tasks,         \* self.active_tasks: the task ids that have an execution handle
    task_results,         \* self.task_results: dict task id -> recorded Result
    tk,                   \* per task id: the execution coroutine (asyncio.Task) and its request
    items,                \* per task id and item: the download_with_semaphore coroutines
    doneq,                \* per task id: as_completed's queue of finished items
    ncancel,              \* cancel_task calls made so far
    call,                 \* the last call of cancel_task / determine_processor and what it returned
    \* ---- history (not program state): every publish, in the order of the calls
    pubs

hubvars == <<active_connections, task_subscribers, connection_count, sendq, hbpub,
             hpc, nmsg, wire, rx, want, pubs>>

orchvars == <<active_tasks, task_results, tk, items, doneq, ncancel, call>>

vars == <<hubvars, orchvars>>

\* ------------------------------------------------------------ Broadcast Hub
\* The hub's state as one record, so that a segment that calls several hub
\* operations in a row composes them.
Hub == [ac |-> active_connections, ts |-> task_subscribers, cc |-> connection_count,
        q |-> sendq, rx |-> rx, pubs |-> pubs]

SetHub(H) ==
    /\ active_connections' = H.ac
    /\ task_subscribers' = H.ts
    /\ connection_count' = H.cc
    /\ sendq' = H.q
    /\ rx' = H.rx
    /\ pubs' = H.pubs

\* WebSocketMessage(type=..., task_id=..., data=...); pub identifies the
\* publish call the message belongs to (0: a message sent to one connection)
Msg(type, task, ev, n, pub) == [type |-> type, task |-> task, ev |-> ev, n |-> n, pub |-> pub]

\* ConnectionManager.disconnect
Disconnect(H, c) ==
    IF c \in H.ac
    THEN [H EXCEPT !.ac = @ \ {c},
                   !.ts = [t \in DOMAIN H.ts |-> H.ts[t] \ {c}]]
    ELSE H

\* ConnectionManager.send_message: websocket.send_text either hands the
\* message to an open connection or raises on a closed one; every exception
\* is caught and the connection is disconnected
SendMessage(H, c, m) ==
    IF wire[c] = "open"
    THEN [H EXCEPT !.rx[c] = Append(@, m)]
    ELSE Disconnect(H, c)

\* the subscriber lookup replaced by the global connection set
SubscribersAll(H, t) == H.ac

\* self.task_subscribers.get(task_id, set())
Subscribers(H, t) == IF t \in DOMAIN H.ts THEN H.ts[t] ELSE {}

\* ConnectionManager._broadcast_to_connections: list(connections) is copied
\* and one send_message child per connection is handed to asyncio.gather
BroadcastToConnections(H, conns, type, t, ev, n, owner) ==
    LET id == Len(H.pubs) + 1
        entry == [type |-> type, task |-> t, ev |-> ev, n |-> n, targets |-> conns,
                  owner |-> owner, subs |-> {c \in Conns : t \in want[c]}]
    IN  IF conns = {}
        THEN [H EXCEPT !.pubs = Append(@, entry)]
        ELSE [H EXCEPT !.pubs = Append(@, entry),
                       !.q = Append(@, [pub |-> id, msg |-> Msg(type, t, ev, n, id),
                                        pending |-> conns])]

\* a broadcast that sends the events of a task nobody watches to every
\* connection
BroadcastOrAll(H, type, t, ev, n, owner) ==
    BroadcastToConnections(H, IF Subscribers(H, t) = {} THEN H.ac ELSE Subscribers(H, t),
                           type, t, ev, n, owner)

\* broadcast_progress / broadcast_status / broadcast_error / broadcast_metadata:
\* look the subscriber set up, return if it is empty, else fan out
Broadcast(H, type, t, ev, n, owner) ==
    BroadcastToConnections(H, Subscribers(H, t), type, t, ev, n, owner)

\* the fan-out of publish id is still waiting for children
InFlight(q, id) == \E i \in 1..Len(q) : q[i].pub = id

\* ConnectionManager.subscribe_to_task
SubscribeToTask(H, c, t) ==
    LET H1 == [H EXCEPT !.ts = IF t \in DOMAIN H.ts
                                THEN [H.ts EXCEPT ![t] = @ \cup {c}]
                                ELSE [x \in DOMAIN H.ts \cup {t} |->
                                        IF x = t THEN {c} ELSE H.ts[x]]]
    IN  SendMessage(H1, c, Msg("subscription", t, "subscribed", 0, 0))

\* ConnectionManager.unsubscribe_from_task
UnsubscribeFromTask(H, c, t) ==
    IF t \in DOMAIN H.ts
    THEN IF H.ts[t] \ {c} = {}
         THEN [H EXCEPT !.ts = [x \in DOMAIN H.ts \ {t} |-> H.ts[x]]]
         ELSE [H EXCEPT !.ts[t] = @ \ {c}]
    ELSE H

\* connect's capacity test, had it let one connection more in
AtCapacityAbove(H) == Cardinality(H.ac) > WS_MAX_CONNECTIONS

\* connect: len(self.active_connections) >= config.WS_MAX_CONNECTIONS
AtCapacity(H) == Cardinality(H.ac) >= WS_MAX_CONNECTIONS

\* the welcome message of connect
Welcome == Msg("status", NoTask, "welcome", 0, 0)

\* ---------------------------------------------------------------- actions
\* ConnectionManager.connect up to its await of websocket.accept()
ConnectBegin(c) ==
    /\ UNCHANGED orchvars
    /\ hpc[c] = "idle"
    /\ wire[c] = "open"
    /\ hpc' = [hpc EXCEPT ![c] =
                 IF AtCapacity(Hub) THEN "rejected" ELSE "accept"]
    /\ UNCHANGED <<active_connections, task_subscribers, connection_count, sendq, hbpub,
                   nmsg, wire, rx, want, pubs>>

\* connect after accept() returned: register, count, welcome, return True;
\* the handler then waits in receive_text
ConnectFinish(c) ==
    /\ UNCHANGED orchvars
    /\ hpc[c] = "accept"
    /\ LET H1 == [Hub EXCEPT !.ac = @ \cup {c}, !.cc = @ + 1]
       IN  SetHub(SendMessage(H1, c, Welcome))
    /\ hpc' = [hpc EXCEPT ![c] = "loop"]
    /\ UNCHANGED <<hbpub, nmsg, wire, want>>

\* a client message {"type": "subscribe", "task_id": t}
ClientSubscribe(c, t) ==
    /\ UNCHANGED orchvars
    /\ hpc[c] = "loop"
    /\ nmsg < MaxMsgs
    /\ SetHub(SubscribeToTask(Hub, c, t))
    /\ nmsg' = nmsg + 1
    /\ want' = [want EXCEPT ![c] = @ \cup {t}]
    /\ UNCHANGED <<hbpub, hpc, wire>>

\* a client message {"type": "unsubscribe", "task_id": t}
ClientUnsubscribe(c, t) ==
    /\ UNCHANGED orchvars
    /\ hpc[c] = "loop"
    /\ nmsg < MaxMsgs
    /\ SetHub(UnsubscribeFromTask(Hub, c, t))
    /\ nmsg' = nmsg + 1
    /\ want' = [want EXCEPT ![c] = @ \ {t}]
    /\ UNCHANGED <<hbpub, hpc, wire>>

\* well-formed JSON messages outside the four recognized types: an object
\* with another type, an object without a type, and a value that is not an
\* object (a list, a string, a number, null)
ClientMessages ==
    { [object |-> TRUE,  type |-> <<"bogus">>],
      [object |-> TRUE,  type |-> << >>],
      [object |-> FALSE, type |-> << >>] }

\* message.get('type') as the f-string prints it
TypeName(m) == IF m.type = << >> THEN "None" ELSE m.type[1]

\* WebSocketMessage(type="error", data={"error": f"Unknown message type: ..."})
UnknownType(m) == Msg("error", NoTask, TypeName(m), 0, 0)

\* a client message of ClientMessages: the else branch of
\* handle_client_message for an object; on any other value message.get
\* raises AttributeError, which the handler's except Exception logs before
\* its finally clause disconnects
ClientOther(c, m) ==
    /\ UNCHANGED orchvars
    /\ hpc[c] = "loop"
    /\ nmsg < MaxMsgs
    /\ nmsg' = nmsg + 1
    /\ IF m.object
       THEN /\ SetHub(SendMessage(Hub, c, UnknownType(m)))
            /\ UNCHANGED <<hpc, want>>
       ELSE /\ SetHub(Disconnect(Hub, c))
            /\ hpc' = [hpc EXCEPT ![c] = "exit"]
            /\ want' = [want EXCEPT ![c] = {}]
    /\ UNCHANGED <<hbpub, wire>>

\* the client goes away
ClientClose(c) ==
    /\ UNCHANGED orchvars
    /\ wire[c] = "open"
    /\ hpc[c] # "idle"
    /\ wire' = [wire EXCEPT ![c] = "closed"]
    /\ UNCHANGED <<active_connections, task_subscribers, connection_count, sendq, hbpub,
                   hpc, nmsg, rx, want, pubs>>

\* receive_text raises WebSocketDisconnect: the handler's finally clause
HandlerExit(c) ==
    /\ UNCHANGED orchvars
    /\ hpc[c] = "loop"
    /\ wire[c] = "closed"
    /\ SetHub(Disconnect(Hub, c))
    /\ hpc' = [hpc EXCEPT ![c] = "exit"]
    /\ want' = [want EXCEPT ![c] = {}]
    /\ UNCHANGED <<hbpub, nmsg, wire>>

\* one gather child of the oldest fan-out runs send_message
SendStep(c) ==
    /\ UNCHANGED orchvars
    /\ sendq # <<>>
    /\ c \in Head(sendq).pending
    /\ LET f == Head(sendq)
           H1 == SendMessage(Hub, c, f.msg)
           rest == f.pending \ {c}
       IN  SetHub([H1 EXCEPT !.q = IF rest = {} THEN Tail(sendq)
                                   ELSE <<[f EXCEPT !.pending = rest]>> \o Tail(sendq)])
    /\ UNCHANGED <<hbpub, hpc, nmsg, wire, want>>

\* a caller of broadcast_progress / _status / _error / _metadata
Publish(type, t) ==
    /\ UNCHANGED orchvars
    /\ Len(pubs) < MaxPubs
    /\ SetHub(Broadcast(Hub, type, t, "x", 0, 0))
    /\ UNCHANGED <<hbpub, hpc, nmsg, wire, want>>

\* the heartbeat's count, had it been the lifetime counter
HeartbeatCountLifetime(H) == H.cc

\* heartbeat: "active_connections": len(self.active_connections)
HeartbeatCount(H) == Cardinality(H.ac)

\* one cycle of the heartbeat loop, after its sleep
Heartbeat ==
    /\ UNCHANGED orchvars
    /\ Len(pubs) < MaxPubs
    /\ ~InFlight(sendq, hbpub)
    /\ IF active_connections # {}
       THEN /\ SetHub(BroadcastToConnections(Hub, active_connections, "heartbeat", NoTask,
                                             "heartbeat", HeartbeatCount(Hub), -1))
            /\ hbpub' = Len(pubs) + 1
       ELSE UNCHANGED <<active_connections, task_subscribers, connection_count, sendq, hbpub,
                        rx, pubs>>
    /\ UNCHANGED <<hpc, nmsg, wire, want>>

\* --------------------------------------------------------- Task Orchestrator
\* config.MAX_CONCURRENT_DOWNLOADS (default of the environment variable)
MAX_CONCURRENT_DOWNLOADS == 5
\* items of one batch or playlist
MaxItems == 3
\* cancel_task calls
MaxCancels == 1

Items == 1..MaxItems

\* config.MAX_QUALITY_DIRECT (default of the environment variable)
MAX_QUALITY_DIRECT == 720
\* DownloadRequest.quality of the single requests: Field(default=720, ge=144,
\* le=2160); below, at and above the direct-download ceiling
Qualities == {480, 720, 2160}
\* the quality of a request that does not name one
DefaultQuality == 720
\* BatchRequest.max_concurrent: Optional[int] without validation; 0 stands for None
McValues == {-1, 0, 2}

Ev(type, ev, n) == [type |-> type, ev |-> ev, n |-> n]

\* a task id that submit has not generated yet
NoRoutine == [kind |-> "none", pc |-> "none", todo |-> <<>>, then |-> "none", wait |-> 0,
              must_cancel |-> FALSE, n |-> 0, mc |-> 0, results |-> <<>>,
              quality |-> 0, path |-> "none"]

\* no call of cancel_task or determine_processor has been made
NoCall == [fn |-> "none", quality |-> 0, operation |-> "none", ret |-> "none"]

\* Config.is_quality_direct_download, had it excluded the ceiling itself
IsQualityDirectDownloadBelow(quality) == quality < MAX_QUALITY_DIRECT

\* Config.is_quality_direct_download
IsQualityDirectDownload(quality) == quality <= MAX_QUALITY_DIRECT

\* ProcessingStrategy.determine_processor, had it sent the operations it
\* does not know to pytube
DetermineProcessorUnknownDirect(quality, operation) ==
    IF operation \in {"metadata", "extract", "info"} THEN "yt-dlp"
    ELSE IF operation \in {"download", "stream"}
    THEN (IF IsQualityDirectDownload(quality) THEN "pytube" ELSE "yt-dlp")
    ELSE IF operation \in {"subtitles", "thumbnail", "captions"} THEN "yt-dlp"
    ELSE "pytube"

\* ProcessingStrategy.determine_processor: the ProcessorType it returns
DetermineProcessor(quality, operation) ==
    IF operation \in {"metadata", "extract", "info"} THEN "yt-dlp"
    ELSE IF operation \in {"download", "stream"}
    THEN (IF IsQualityDirectDownload(quality) THEN "pytube" ELSE "yt-dlp")
    ELSE IF operation \in {"subtitles", "thumbnail", "captions"} THEN "yt-dlp"
    ELSE "yt-dlp"

\* requires_rendering, had it started one step above the ceiling's successor
RequiresRenderingLate(quality) == quality > MAX_QUALITY_DIRECT + 1

\* ProcessingStrategy.requires_rendering
RequiresRendering(quality) == ~IsQualityDirectDownload(quality)

\* YouTubeProcessor.download_video: the handler method it awaits
DownloadPath(quality) ==
    IF DetermineProcessor(quality, "download") = "pytube"
    THEN "pytube.download_video"
    ELSE IF RequiresRendering(quality)
    THEN "ytdlp.download_and_render"
    ELSE "ytdlp.download_video"

\* the orchestrator's and the hub's state as one record
Orch == [H |-> Hub, tk |-> tk, res |-> task_results, it |-> items, dq |-> doneq]

SetOrch(S) ==
    /\ SetHub(S.H)
    /\ tk' = S.tk
    /\ task_results' = S.res
    /\ items' = S.it
    /\ doneq' = S.dq

\* asyncio.Task.done(), had a cancelled task not counted as done
DoneOnlyFinished(r) == r.pc = "done"

\* asyncio.Task.done() of the execution handle
Done(r) == r.pc \in {"done", "cancelled"}

\* self.task_results[task_id] = result
Put(res, t, r) == [x \in DOMAIN res \cup {t} |-> IF x = t THEN r ELSE res[x]]

IsCompleted(r) == r.status = "completed"
NotCompleted(r) == r.status # "completed"

\* DownloadResult of a single task
SingleResult(status, error) ==
    [kind |-> "single", status |-> status, error |-> error, total_videos |-> 0,
     successful_downloads |-> 0, failed_downloads |-> 0, results |-> <<>>]

\* BatchResult / PlaylistResult, with every collected result counted as a success
AggregateResultMiscount(kind, total, results) ==
    [kind |-> kind, status |-> "none", error |-> "none", total_videos |-> total,
     successful_downloads |-> Len(results),
     failed_downloads |-> total - Len(results),
     results |-> results]

\* BatchResult / PlaylistResult built from the collected per-item results
AggregateResult(kind, total, results) ==
    [kind |-> kind, status |-> "none", error |-> "none", total_videos |-> total,
     successful_downloads |-> Len(SelectSeq(results, IsCompleted)),
     failed_downloads |-> Len(SelectSeq(results, NotCompleted)),
     results |-> results]

\* the except clause without its broadcast_error
FailSilently(S, t, error) ==
    LET r == S.tk[t]
        result == CASE r.kind = "single" -> SingleResult("failed", error)
                    [] r.kind = "batch" -> AggregateResult("batch", r.n, <<>>)
                    [] OTHER -> AggregateResult("playlist", 0, <<>>)
    IN  [S EXCEPT !.res = Put(S.res, t, result),
                  !.tk[t].todo = <<>>,
                  !.tk[t].then = "done"]

\* the three execution routines without their except clause: the exception
\* ends the routine, nothing is recorded or published
FailPropagates(S, t, error) ==
    [S EXCEPT !.tk[t].todo = <<>>, !.tk[t].then = "done"]

\* the except clause of the three execution routines: a failed Result is
\* recorded and an error event is published
Fail(S, t, error) ==
    LET r == S.tk[t]
        result == CASE r.kind = "single" -> SingleResult("failed", error)
                    [] r.kind = "batch" -> AggregateResult("batch", r.n, <<>>)
                    [] OTHER -> AggregateResult("playlist", 0, <<>>)
    IN  [S EXCEPT !.res = Put(S.res, t, result),
                  !.tk[t].todo = <<Ev("error", error, 0)>>,
                  !.tk[t].then = "done"]

\* max_concurrent or config.MAX_CONCURRENT_DOWNLOADS
SemaphoreSize(mc) == IF mc = 0 THEN MAX_CONCURRENT_DOWNLOADS ELSE mc

\* items of task t that are inside processor.download_video
Running(it, t) == {i \in Items : it[t][i] = "run"}

\* async with semaphore, with the acquire forgotten
MayEnterUngated(it, t, k) == TRUE

\* async with semaphore: an item enters while fewer than k hold the semaphore
MayEnter(it, t, k) == Cardinality(Running(it, t)) < k

\* download_with_semaphore's try/except, without the except clause
ItemResultNoIsolation(i, out) ==
    [item |-> i, status |-> IF out = "ok" THEN "completed" ELSE "failed", exc |-> out = "raise"]

\* download_with_semaphore: the result of processor.download_video, or a FAILED
\* DownloadResult when it raised
ItemResult(i, out) ==
    [item |-> i, status |-> IF out = "ok" THEN "completed" ELSE "failed", exc |-> FALSE]

\* the aggregate update, had it reported the loop index itself
ProgressEventFromZero(i) == Ev("status", "downloading", i)

\* the aggregate update of the as_completed loop at index i: "Downloaded
\* {i + 1}/{len(tasks)} videos"
ProgressEvent(i) == Ev("status", "downloading", i + 1)

\* _download_requests_with_isolation up to the first await of the loop
StartItems(S, t) ==
    LET r == S.tk[t]
        k == SemaphoreSize(r.mc)
    IN  IF k < 0
        THEN Fail(S, t, "ValueError")
        ELSE [S EXCEPT !.it[t] = [i \in Items |-> IF i <= r.n THEN "wait" ELSE "none"],
                       !.tk[t].then = "collect"]

\* One statement of an execution routine that runs without suspending: the
\* next publish, or the dispatch on what follows the publishes.  go tells
\* whether the routine runs on (a publish without subscribers returns at
\* once) or is suspended in an await.
Segment(S, t) ==
    LET r == S.tk[t] IN
    IF r.todo # <<>>
    THEN LET e == Head(r.todo)
             H1 == Broadcast(S.H, e.type, t, e.ev, e.n, t)
             S1 == [S EXCEPT !.H = H1, !.tk[t].todo = Tail(r.todo)]
         IN  IF Subscribers(S.H, t) = {}
             THEN [s |-> S1, go |-> TRUE]
             ELSE [s |-> [S1 EXCEPT !.tk[t].pc = "pub", !.tk[t].wait = Len(H1.pubs)],
                   go |-> FALSE]
    ELSE CASE r.then = "extract" -> [s |-> [S EXCEPT !.tk[t].pc = "extract"], go |-> FALSE]
           [] r.then = "download" ->
                \* await self.processor.download_video(request, progress_callback)
                [s |-> [S EXCEPT !.tk[t].pc = "download",
                                 !.tk[t].path = DownloadPath(r.quality)],
                 go |-> FALSE]
           [] r.then = "render" -> [s |-> [S EXCEPT !.tk[t].pc = "render"], go |-> FALSE]
           [] r.then = "items" -> [s |-> StartItems(S, t), go |-> TRUE]
           [] r.then = "collect" ->
                \* for i, task in enumerate(asyncio.as_completed(tasks))
                IF Len(r.results) = r.n
                THEN \* the loop is over: build and record the aggregate
                     [s |-> [S EXCEPT
                               !.res = Put(S.res, t, AggregateResult(r.kind, r.n, r.results)),
                               !.tk[t].todo = <<Ev("status", "completed", 0)>>,
                               !.tk[t].then = "done"],
                      go |-> TRUE]
                ELSE IF S.dq[t] # <<>>
                THEN LET x == Head(S.dq[t]) IN
                     IF x.exc
                     THEN [s |-> Fail([S EXCEPT !.dq[t] = Tail(@)], t, "Exception"), go |-> TRUE]
                     ELSE [s |-> [S EXCEPT
                                    !.dq[t] = Tail(@),
                                    !.tk[t].results =
                                        Append(@, [item |-> x.item, status |-> x.status]),
                                    !.tk[t].todo = <<ProgressEvent(Len(r.results))>>],
                           go |-> TRUE]
                ELSE [s |-> [S EXCEPT !.tk[t].pc = "collect"], go |-> FALSE]
           [] OTHER -> [s |-> [S EXCEPT !.tk[t].pc = "done"], go |-> FALSE]

\* One uninterrupted run of an execution routine, from where it was resumed
\* to its next suspension or its return.  (The statement's outcome is bound
\* as X before the run goes on from it.)
RECURSIVE Run(_, _)
Run(S, t) ==
    CHOOSE Y \in {IF X.go THEN Run(X.s, t) ELSE X.s : X \in {Segment(S, t)}} : TRUE

\* DownloadOrchestrator.get_task_status
GetTaskStatus(t) ==
    IF t \in active_tasks
    THEN [found |-> TRUE, status |-> IF Done(tk[t]) THEN "completed" ELSE "running",
          done |-> Done(tk[t]), cancelled |-> tk[t].pc = "cancelled", result |-> FALSE]
    ELSE IF t \in DOMAIN task_results
    THEN [found |-> TRUE, status |-> "completed", done |-> TRUE, cancelled |-> FALSE,
          result |-> TRUE]
    ELSE [found |-> FALSE, status |-> "none", done |-> FALSE, cancelled |-> FALSE,
          result |-> FALSE]

\* cleanup_completed_tasks, had it evicted every handle
EvictedAll(at) == at

\* tasks that cleanup_completed_tasks evicts
Evicted(at) == {t \in at : Done(tk[t])}

\* the routine's next step, had task.cancel() not reached a routine that is
\* about to be resumed
ResumableAlways(r) == TRUE

\* the routine's next step runs its code: no task.cancel() is pending for it
\* (a pending one resumes the routine with CancelledError instead)
Resumable(r) == ~r.must_cancel

\* start_single_download / start_playlist_download / start_batch_download
Submit(t, kind, n, mc, quality) ==
    /\ tk[t].kind = "none"
    /\ active_tasks' = active_tasks \cup {t}
    /\ tk' = [tk EXCEPT ![t] = [NoRoutine EXCEPT !.kind = kind, !.pc = "new", !.n = n, !.mc = mc,
                                                 !.quality = quality]]
    /\ SetHub(Broadcast(Hub, "status", t, "started", 0, 0))
    /\ UNCHANGED <<task_results, items, doneq, ncancel, call, hbpub, hpc, nmsg, wire, want>>

\* the first segment of _execute_single_download / _playlist_ / _batch_
RoutineStart(t) ==
    /\ tk[t].pc = "new"
    /\ Resumable(tk[t])
    /\ LET first == IF tk[t].kind = "batch"
                    THEN [Orch EXCEPT !.tk[t].todo = <<Ev("status", "downloading", 0)>>,
                                      !.tk[t].then = "items"]
                    ELSE [Orch EXCEPT !.tk[t].todo = <<Ev("status", "extracting", 0)>>,
                                      !.tk[t].then = "extract"]
       IN  \E R \in {Run(first, t)} : SetOrch(R)
    /\ UNCHANGED <<active_tasks, ncancel, call, hbpub, hpc, nmsg, wire, want>>

\* the fan-out the routine awaits is over: the routine goes on
PubDone(t) ==
    /\ tk[t].pc = "pub"
    /\ Resumable(tk[t])
    /\ ~InFlight(sendq, tk[t].wait)
    /\ \E R \in {Run([Orch EXCEPT !.tk[t].wait = 0], t)} : SetOrch(R)
    /\ UNCHANGED <<active_tasks, ncancel, call, hbpub, hpc, nmsg, wire, want>>

\* processor.extract_metadata returns VideoMetadata, returns PlaylistMetadata
\* (of which the request selects n videos), or raises
ExtractReturns(t, out, n) ==
    /\ tk[t].pc = "extract"
    /\ Resumable(tk[t])
    /\ n > 0 => (out = "playlist" /\ tk[t].kind = "playlist")
    /\ LET S == Orch
           next ==
             IF out = "raise" THEN Fail(S, t, "ExtractionError")
             ELSE IF tk[t].kind = "single"
             THEN [S EXCEPT !.tk[t].todo =
                                (IF out = "video" THEN <<Ev("metadata", "metadata", 0)>> ELSE <<>>)
                                \o <<Ev("status", "downloading", 0)>>,
                            !.tk[t].then = "download"]
             ELSE IF out = "video" THEN Fail(S, t, "ValueError")
             ELSE [S EXCEPT !.tk[t].todo = <<Ev("metadata", "metadata", 0),
                                             Ev("status", "downloading", 0)>>,
                            !.tk[t].then = "items",
                            !.tk[t].n = n]
       IN  \E R \in {Run(next, t)} : SetOrch(R)
    /\ UNCHANGED <<active_tasks, ncancel, call, hbpub, hpc, nmsg, wire, want>>

\* processor.download_video of a single task returns a COMPLETED result,
\* returns a FAILED result, or raises; in download_and_render the two stream
\* downloads are over and render_video is awaited (a failed stream download
\* is caught there and returned as a FAILED result)
DownloadReturns(t, out) ==
    /\ tk[t].pc = "download"
    /\ Resumable(tk[t])
    /\ tk[t].path = "ytdlp.download_and_render" => out # "raise"
    /\ LET S == Orch
           next ==
             CASE out = "ok" /\ tk[t].path = "ytdlp.download_and_render" ->
                    [S EXCEPT !.tk[t].then = "render"]
               [] out = "ok" ->
                    [S EXCEPT !.res = Put(S.res, t, SingleResult("completed", "none")),
                              !.tk[t].todo = <<Ev("status", "completed", 0)>>,
                              !.tk[t].then = "done"]
               [] out = "failed" ->
                    [S EXCEPT !.res = Put(S.res, t, SingleResult("failed", "DownloadError")),
                              !.tk[t].todo = <<Ev("error", "DownloadError", 0)>>,
                              !.tk[t].then = "done"]
               [] OTHER -> Fail(S, t, "Exception")
       IN  \E R \in {Run(next, t)} : SetOrch(R)
    /\ UNCHANGED <<active_tasks, ncancel, call, hbpub, hpc, nmsg, wire, want>>

\* render_video returns the rendered file and download_and_render a
\* COMPLETED result, or render_video raises and download_and_render returns a
\* FAILED result
RenderReturns(t, out) ==
    /\ tk[t].pc = "render"
    /\ Resumable(tk[t])
    /\ LET S == Orch
           next ==
             IF out = "ok"
             THEN [S EXCEPT !.res = Put(S.res, t, SingleResult("completed", "none")),
                            !.tk[t].todo = <<Ev("status", "completed", 0)>>,
                            !.tk[t].then = "done"]
             ELSE [S EXCEPT !.res = Put(S.res, t, SingleResult("failed", "DownloadError")),
                            !.tk[t].todo = <<Ev("error", "DownloadError", 0)>>,
                            !.tk[t].then = "done"]
       IN  \E R \in {Run(next, t)} : SetOrch(R)
    /\ UNCHANGED <<active_tasks, ncancel, call, hbpub, hpc, nmsg, wire, want>>

\* download_with_semaphore of item i acquires the semaphore and calls
\* processor.download_video
ItemStart(t, i) ==
    /\ items[t][i] = "wait"
    /\ MayEnter(items, t, SemaphoreSize(tk[t].mc))
    /\ items' = [items EXCEPT ![t][i] = "run"]
    /\ UNCHANGED <<hubvars, active_tasks, task_results, tk, doneq, ncancel, call>>

\* processor.download_video of item i returns a COMPLETED result ("ok"), returns
\* a FAILED result ("failed") or raises ("raise"); the item's coroutine releases
\* the semaphore and ends, as_completed queues its outcome
ItemFinish(t, i, out) ==
    /\ items[t][i] = "run"
    /\ items' = [items EXCEPT ![t][i] = out]
    /\ doneq' = [doneq EXCEPT ![t] = Append(@, ItemResult(i, out))]
    /\ UNCHANGED <<hubvars, active_tasks, task_results, tk, ncancel, call>>

\* the routine waits in the as_completed loop and a finished item is queued
Wake(t) ==
    /\ tk[t].pc = "collect"
    /\ Resumable(tk[t])
    /\ doneq[t] # <<>>
    /\ \E R \in {Run(Orch, t)} : SetOrch(R)
    /\ UNCHANGED <<active_tasks, ncancel, call, hbpub, hpc, nmsg, wire, want>>

\* cancel_task's test, without the look at task.done()
CancelReturnsAnyHandle(t) == t \in active_tasks

\* cancel_task: task_id in self.active_tasks and not task.done()
CancelReturns(t) == t \in active_tasks /\ ~Done(tk[t])

\* DownloadOrchestrator.cancel_task
CancelTask(t) ==
    /\ ncancel < MaxCancels
    /\ ncancel' = ncancel + 1
    /\ call' = [NoCall EXCEPT !.fn = "cancel_task",
                              !.ret = IF CancelReturns(t) THEN "True" ELSE "False"]
    /\ IF CancelReturns(t)
       THEN \* task.cancel(): a fan-out the routine waits for loses its children
            /\ tk' = [tk EXCEPT ![t].must_cancel = TRUE]
            /\ LET q1 == SelectSeq(sendq, LAMBDA f : ~(tk[t].pc = "pub" /\ f.pub = tk[t].wait))
               IN  SetHub(Broadcast([Hub EXCEPT !.q = q1], "status", t, "cancelled", 0, 0))
       ELSE UNCHANGED <<tk, active_connections, task_subscribers, connection_count, sendq,
                        rx, pubs>>
    /\ UNCHANGED <<active_tasks, task_results, items, doneq, hbpub, hpc, nmsg, wire, want>>

\* the execution routine is resumed with CancelledError, which no
\* "except Exception" catches
TaskCancelled(t) ==
    /\ tk[t].must_cancel
    /\ ~Done(tk[t])
    /\ tk' = [tk EXCEPT ![t].pc = "cancelled", ![t].must_cancel = FALSE, ![t].wait = 0,
                        ![t].todo = <<>>]
    /\ UNCHANGED <<hubvars, active_tasks, task_results, items, doneq, ncancel, call>>

\* cleanup_completed_tasks, had it freed the evicted tasks' results too
CleanupDroppingResults ==
    /\ Evicted(active_tasks) # {}
    /\ active_tasks' = active_tasks \ Evicted(active_tasks)
    /\ task_results' = [t \in DOMAIN task_results \ Evicted(active_tasks) |-> task_results[t]]
    /\ UNCHANGED <<hubvars, tk, items, doneq, ncancel, call>>

\* DownloadOrchestrator.cleanup_completed_tasks
CleanupCompletedTasks ==
    /\ Evicted(active_tasks) # {}
    /\ active_tasks' = active_tasks \ Evicted(active_tasks)
    /\ UNCHANGED <<hubvars, task_results, tk, items, doneq, ncancel, call>>

InitTasks ==
    /\ active_tasks = {}
    /\ task_results = << >>
    /\ tk = [t \in TaskIds |-> NoRoutine]
    /\ items = [t \in TaskIds |-> [i \in Items |-> "none"]]
    /\ doneq = [t \in TaskIds |-> <<>>]
    /\ ncancel = 0
    /\ call = NoCall


InitHub ==
    /\ active_connections = {}
    /\ task_subscribers = << >>
    /\ connection_count = 0
    /\ sendq = <<>>
    /\ hbpub = 0
    /\ hpc = [c \in Conns |-> "idle"]
    /\ nmsg = 0
    /\ wire = [c \in Conns |-> IF c \in HubConns THEN "open" ELSE "absent"]
    /\ rx = [c \in Conns |-> <<>>]
    /\ want = [c \in Conns |-> {}]
    /\ pubs = <<>>
    /\ InitTasks

NextHub ==
    \/ \E c \in Conns : ConnectBegin(c)
    \/ \E c \in Conns : ConnectFinish(c)
    \/ \E c \in Conns, t \in TaskIds : ClientSubscribe(c, t)
    \/ \E c \in Conns, t \in TaskIds : ClientUnsubscribe(c, t)
    \/ \E c \in Conns : ClientClose(c)
    \/ \E c \in Conns : HandlerExit(c)
    \/ \E c \in Conns : SendStep(c)
    \/ \E t \in TaskIds : Publish("progress", t)
    \/ Heartbeat

SpecHub == InitHub /\ [][NextHub]_vars

\* The heartbeat's sleep ends and the event loop runs the send_message
\* children that are ready.
SpecHubFair ==
    /\ InitHub
    /\ [][NextHub]_vars
    /\ WF_vars(Heartbeat)
    /\ WF_vars(\E c \in Conns : SendStep(c))

\* The hub with more clients than it admits: every websocket object has a
\* client that connects, subscribes and goes away.
InitCap ==
    /\ active_connections = {}
    /\ task_subscribers = << >>
    /\ connection_count = 0
    /\ sendq = <<>>
    /\ hbpub = 0
    /\ hpc = [c \in Conns |-> "idle"]
    /\ nmsg = 0
    /\ wire = [c \in Conns |-> "open"]
    /\ rx = [c \in Conns |-> <<>>]
    /\ want = [c \in Conns |-> {}]
    /\ pubs = <<>>
    /\ InitTasks

NextCap ==
    \/ \E c \in Conns : ConnectBegin(c)
    \/ \E c \in Conns : ConnectFinish(c)
    \/ \E c \in Conns, t \in TaskIds : ClientSubscribe(c, t)
    \/ \E c \in Conns : ClientClose(c)
    \/ \E c \in Conns : HandlerExit(c)

SpecCap == InitCap /\ [][NextCap]_vars

\* The connection handlers receiving subscriptions and unrecognized messages
NextMsg ==
    \/ \E c \in Conns : ConnectBegin(c)
    \/ \E c \in Conns : ConnectFinish(c)
    \/ \E c \in Conns, t \in TaskIds : ClientSubscribe(c, t)
    \/ \E c \in Conns, m \in ClientMessages : ClientOther(c, m)
    \/ \E c \in Conns : ClientClose(c)
    \/ \E c \in Conns : HandlerExit(c)

SpecMsg == InitCap /\ [][NextMsg]_vars

\* connections whose clients follow tasks in the orchestrator specification
OrchConns == {1}

\* The orchestrator runs with the hub's connections already accepted.
InitOrch ==
    /\ active_connections = OrchConns
    /\ task_subscribers = << >>
    /\ connection_count = Cardinality(OrchConns)
    /\ sendq = <<>>
    /\ hbpub = 0
    /\ hpc = [c \in Conns |-> IF c \in OrchConns THEN "loop" ELSE "idle"]
    /\ nmsg = 0
    /\ wire = [c \in Conns |-> IF c \in OrchConns THEN "open" ELSE "absent"]
    /\ rx = [c \in Conns |-> <<>>]
    /\ want = [c \in Conns |-> {}]
    /\ pubs = <<>>
    /\ InitTasks

\* the steps that do not depend on the size of a batch or playlist
OrchSteps ==
    \/ \E t \in TaskIds, quality \in Qualities : Submit(t, "single", 0, 0, quality)
    \/ \E t \in TaskIds : Submit(t, "playlist", 0, 0, DefaultQuality)
    \/ \E t \in TaskIds : RoutineStart(t)
    \/ \E t \in TaskIds : PubDone(t)
    \/ \E t \in TaskIds, out \in {"video", "playlist", "raise"} : ExtractReturns(t, out, 0)
    \/ \E t \in TaskIds, out \in {"ok", "failed", "raise"} : DownloadReturns(t, out)
    \/ \E t \in TaskIds, out \in {"ok", "failed"} : RenderReturns(t, out)
    \/ \E t \in TaskIds, i \in Items : ItemStart(t, i)
    \/ \E t \in TaskIds, i \in Items, out \in {"ok", "failed", "raise"} : ItemFinish(t, i, out)
    \/ \E t \in TaskIds : Wake(t)
    \/ \E t \in TaskIds : CancelTask(t)
    \/ \E t \in TaskIds : TaskCancelled(t)
    \/ CleanupCompletedTasks
    \/ \E c \in Conns, t \in TaskIds : ClientSubscribe(c, t)
    \/ \E c \in Conns : SendStep(c)

NextOrch ==
    \/ OrchSteps
    \/ \E t \in TaskIds, n \in 1..MaxItems, mc \in McValues :
          Submit(t, "batch", n, mc, DefaultQuality)
    \/ \E t \in TaskIds, n \in 1..MaxItems : ExtractReturns(t, "playlist", n)

SpecOrch == InitOrch /\ [][NextOrch]_vars

\* What the event loop and the worker threads do without being asked: ready
\* coroutines are run, external calls return or raise.
Progress ==
    \/ \E t \in TaskIds : RoutineStart(t) \/ PubDone(t) \/ Wake(t) \/ TaskCancelled(t)
    \/ \E t \in TaskIds, out \in {"video", "playlist", "raise"} : ExtractReturns(t, out, 0)
    \/ \E t \in TaskIds, out \in {"ok", "failed", "raise"} : DownloadReturns(t, out)
    \/ \E t \in TaskIds, out \in {"ok", "failed"} : RenderReturns(t, out)
    \/ \E t \in TaskIds, i \in Items : ItemStart(t, i)
    \/ \E t \in TaskIds, i \in Items, out \in {"ok", "failed", "raise"} : ItemFinish(t, i, out)
    \/ \E c \in Conns : SendStep(c)

\* The fair specification runs batches and playlists of fewer items, with
\* a limit of one download at a time among the overrides.
FairMcValues == {-1, 0, 1}

NextFair ==
    \/ OrchSteps
    \/ \E t \in TaskIds, n \in 1..(MaxItems - 1), mc \in FairMcValues :
          Submit(t, "batch", n, mc, DefaultQuality)
    \/ \E t \in TaskIds, n \in 1..(MaxItems - 1) : ExtractReturns(t, "playlist", n)

SpecOrchFair == InitOrch /\ [][NextFair]_vars /\ WF_vars(Progress)

\* ------------------------------------------------- the routing function alone
\* qualities determine_processor is called with: the values of
\* get_recommended_qualities, the direct-download ceiling and its neighbours,
\* and values outside the range a request accepts
RouteQualities == {0, 144, 240, 360, 480, 719, 720, 721, 1080, 1440, 2160, 4320}

\* operations determine_processor is called with: the eight it names, and
\* two it does not
Operations == {"metadata", "extract", "info", "download", "stream",
               "subtitles", "thumbnail", "captions", "convert", ""}

\* A call of determine_processor(quality, operation) is about to be made, on a
\* server that has no connection and no task.
InitRoute ==
    /\ active_connections = {}
    /\ task_subscribers = << >>
    /\ connection_count = 0
    /\ sendq = <<>>
    /\ hbpub = 0
    /\ hpc = [c \in Conns |-> "idle"]
    /\ nmsg = 0
    /\ wire = [c \in Conns |-> "absent"]
    /\ rx = [c \in Conns |-> <<>>]
    /\ want = [c \in Conns |-> {}]
    /\ pubs = <<>>
    /\ active_tasks = {}
    /\ task_results = << >>
    /\ tk = [t \in TaskIds |-> NoRoutine]
    /\ items = [t \in TaskIds |-> [i \in Items |-> "none"]]
    /\ doneq = [t \in TaskIds |-> <<>>]
    /\ ncancel = 0
    /\ \E quality \in RouteQualities, operation \in Operations :
          call = [fn |-> "determine_processor", quality |-> quality,
                  operation |-> operation, ret |-> "none"]

\* ProcessingStrategy.determine_processor(quality, operation) returns
DetermineProcessorCall ==
    /\ call.fn = "determine_processor"
    /\ call.ret = "none"
    /\ call' = [call EXCEPT !.ret = DetermineProcessor(call.quality, call.operation)]
    /\ UNCHANGED <<hubvars, active_tasks, task_results, tk, items, doneq, ncancel>>

NextRoute == DetermineProcessorCall

SpecRoute == InitRoute /\ [][NextRoute]_vars

\* ------------------------------------------- the playlist selection alone
\* videos of a playlist
MaxVideos == 3

Min(a, b) == IF a < b THEN a ELSE b
Max(a, b) == IF a > b THEN a ELSE b

\* Python's s[k:] for k >= 0
SliceFrom(s, k) == SubSeq(s, k + 1, Len(s))

\* Python's s[:e]: a negative e counts from the end
SliceTo(s, e) ==
    IF e >= 0 THEN SubSeq(s, 1, Min(e, Len(s)))
    ELSE SubSeq(s, 1, Max(Len(s) + e, 0))

\* playlist.videos of a playlist of n videos: video i is at index i
Videos(n) == [k \in 1..n |-> k - 1]

\* for index in request.selected_videos: if 0 <= index < len(videos):
\* selected_videos.append(videos[index])
RECURSIVE Listed(_, _)
Listed(videos, indices) ==
    IF indices = <<>> THEN <<>>
    ELSE (IF 0 <= Head(indices) /\ Head(indices) < Len(videos)
          THEN <<videos[Head(indices) + 1]>> ELSE <<>>)
         \o Listed(videos, Tail(indices))

\* DownloadOrchestrator._select_playlist_videos; an Optional[int] is <<>> for
\* None and <<v>> for the integer v
SelectPlaylistVideos(videos, r) ==
    LET base == IF r.download_all THEN videos ELSE Listed(videos, r.selected_videos)
        s1 == IF r.start_index # <<>>
              THEN SliceFrom(base, Max(0, r.start_index[1]))
              ELSE base
        s2 == IF r.end_index # <<>>
              THEN SliceTo(s1, Min(Len(s1), r.end_index[1] + 1))
              ELSE s1
    IN  IF r.max_downloads # <<>> THEN SliceTo(s2, r.max_downloads[1]) ELSE s2

\* Optional[int] values of start_index, end_index and max_downloads
OptionalIndex == {<<>>} \cup {<<v>> : v \in -2..MaxVideos}

\* selected_videos of the requests that do not download all (the validator
\* rejects an empty list there)
IndexLists == {<<0>>, <<2, 0>>, <<1, 1>>, <<-1, 1>>, <<1, 5, 0>>}

\* the PlaylistRequest fields _select_playlist_videos reads
SelectRequests ==
    [download_all : {TRUE}, selected_videos : {<<>>},
     start_index : OptionalIndex, end_index : OptionalIndex, max_downloads : OptionalIndex]
    \cup
    [download_all : {FALSE}, selected_videos : IndexLists,
     start_index : OptionalIndex, end_index : OptionalIndex, max_downloads : OptionalIndex]

\* A call of _select_playlist_videos(playlist, request) is about to be made,
\* on a server that has no connection and no task.
InitSelect ==
    /\ active_connections = {}
    /\ task_subscribers = << >>
    /\ connection_count = 0
    /\ sendq = <<>>
    /\ hbpub = 0
    /\ hpc = [c \in Conns |-> "idle"]
    /\ nmsg = 0
    /\ wire = [c \in Conns |-> "absent"]
    /\ rx = [c \in Conns |-> <<>>]
    /\ want = [c \in Conns |-> {}]
    /\ pubs = <<>>
    /\ active_tasks = {}
    /\ task_results = << >>
    /\ tk = [t \in TaskIds |-> NoRoutine]
    /\ items = [t \in TaskIds |-> [i \in Items |-> "none"]]
    /\ doneq = [t \in TaskIds |-> <<>>]
    /\ ncancel = 0
    /\ \E n \in 0..MaxVideos, r \in SelectRequests :
          call = [fn |-> "_select_playlist_videos", videos |-> Videos(n), request |-> r,
                  returned |-> FALSE, ret |-> <<>>]

\* _select_playlist_videos(playlist, request) returns
SelectPlaylistVideosCall ==
    /\ call.fn = "_select_playlist_videos"
    /\ ~call.returned
    /\ call' = [call EXCEPT !.returned = TRUE,
                            !.ret = SelectPlaylistVideos(call.videos, call.request)]
    /\ UNCHANGED <<hubvars, active_tasks, task_results, tk, items, doneq, ncancel>>

NextSelect == SelectPlaylistVideosCall

SpecSelect == InitSelect /\ [][NextSelect]_vars

\* ------------------------------------------------ the task id generator alone
\* calls of _generate_task_id
MaxIds == 3
\* seconds the clock advances
MaxClock == 1

\* the prefixes start_single_download, start_playlist_download and
\* start_batch_download pass
Prefixes == {"single", "playlist", "batch"}

\* uuid.uuid4().hex[:8]: 8 hexadecimal digits of a random UUID, any of the
\* 16^8 values at every call; two values stand for them
HexValues == {0, 1}

\* f"{prefix}_{uuid.uuid4().hex[:8]}_{int(time.time())}": the three parts
\* of the string
GenerateTaskId(prefix, hex, now) == [prefix |-> prefix, hex |-> hex, time |-> now]

\* The orchestrator has generated no task id yet.
InitIds ==
    /\ active_connections = {}
    /\ task_subscribers = << >>
    /\ connection_count = 0
    /\ sendq = <<>>
    /\ hbpub = 0
    /\ hpc = [c \in Conns |-> "idle"]
    /\ nmsg = 0
    /\ wire = [c \in Conns |-> "absent"]
    /\ rx = [c \in Conns |-> <<>>]
    /\ want = [c \in Conns |-> {}]
    /\ pubs = <<>>
    /\ active_tasks = {}
    /\ task_results = << >>
    /\ tk = [t \in TaskIds |-> NoRoutine]
    /\ items = [t \in TaskIds |-> [i \in Items |-> "none"]]
    /\ doneq = [t \in TaskIds |-> <<>>]
    /\ ncancel = 0
    /\ call = [fn |-> "_generate_task_id", now |-> 0, ids |-> <<>>]

\* _generate_task_id(prefix) returns; call.ids keeps what the calls returned
GenerateTaskIdCall(prefix) ==
    /\ call.fn = "_generate_task_id"
    /\ Len(call.ids) < MaxIds
    /\ \E hex \in HexValues :
          call' = [call EXCEPT !.ids = Append(@, GenerateTaskId(prefix, hex, call.now))]
    /\ UNCHANGED <<hubvars, active_tasks, task_results, tk, items, doneq, ncancel>>

\* int(time.time()) moves to the next second
ClockTick ==
    /\ call.fn = "_generate_task_id"
    /\ call.now < MaxClock
    /\ call' = [call EXCEPT !.now = @ + 1]
    /\ UNCHANGED <<hubvars, active_tasks, task_results, tk, items, doneq, ncancel>>

NextIds ==
    \/ \E prefix \in Prefixes : GenerateTaskIdCall(prefix)
    \/ ClockTick

SpecIds == InitIds /\ [][NextIds]_vars

\* Everything but the call record is idle.
IdleButCall ==
    /\ active_connections = {}
    /\ task_subscribers = << >>
    /\ connection_count = 0
    /\ sendq = <<>>
    /\ hbpub = 0
    /\ hpc = [c \in Conns |-> "idle"]
    /\ nmsg = 0
    /\ wire = [c \in Conns |-> "absent"]
    /\ rx = [c \in Conns |-> <<>>]
    /\ want = [c \in Conns |-> {}]
    /\ pubs = <<>>
    /\ active_tasks = {}
    /\ task_results = << >>
    /\ tk = [t \in TaskIds |-> NoRoutine]
    /\ items = [t \in TaskIds |-> [i \in Items |-> "none"]]
    /\ doneq = [t \in TaskIds |-> <<>>]
    /\ ncancel = 0

\* ------------------------------------------- YtDlpHandler.download_and_render
\* download_and_render invocations
MaxRenders == 2

Renders == 1..MaxRenders

\* An invocation that has not started
NoRender == [pc |-> "idle", task_id |-> -1, found |-> {}]

\* Two download_and_render invocations are about to be made; the temp
\* directory is empty.  call.files maps each temp file pair's name to the
\* invocations whose downloads wrote it.
InitRender ==
    /\ IdleButCall
    /\ call = [fn |-> "download_and_render", now |-> 0,
               inv |-> [i \in Renders |-> NoRender], files |-> << >>]

\* task_id = f"render_{int(time.time())}"; the outtmpl names are
\* video_{task_id} and audio_{task_id}
RenderTaskId(now) == now

\* the yt-dlp downloads of invocation i write video_{task_id}.* and
\* audio_{task_id}.* into temp_path
WriteTemp(files, name, i) ==
    [n \in DOMAIN files \cup {name} |->
        IF n = name THEN (IF n \in DOMAIN files THEN files[n] ELSE {}) \cup {i}
        ELSE files[n]]

\* _cleanup_files: os.remove of the files that exist
CleanupFiles(files, name) == [n \in DOMAIN files \ {name} |-> files[n]]

\* download_and_render is entered: the task id is taken from the clock and
\* the two downloads are handed to the executor
RenderBegin(i) ==
    /\ call.fn = "download_and_render"
    /\ call.inv[i].pc = "idle"
    /\ call' = [call EXCEPT !.inv[i].pc = "download",
                            !.inv[i].task_id = RenderTaskId(call.now)]
    /\ UNCHANGED <<hubvars, active_tasks, task_results, tk, items, doneq, ncancel>>

\* the executor threads finish both downloads
RenderDownloaded(i) ==
    /\ call.fn = "download_and_render"
    /\ call.inv[i].pc = "download"
    /\ call' = [call EXCEPT !.inv[i].pc = "downloaded",
                            !.files = WriteTemp(@, call.inv[i].task_id, i)]
    /\ UNCHANGED <<hubvars, active_tasks, task_results, tk, items, doneq, ncancel>>

\* the coroutine resumes after gather: _find_temp_file by prefix; a missing
\* file raises ValueError, caught into a FAILED result
RenderFind(i) ==
    /\ call.fn = "download_and_render"
    /\ call.inv[i].pc = "downloaded"
    /\ LET name == call.inv[i].task_id
       IN  IF name \in DOMAIN call.files
           THEN call' = [call EXCEPT !.inv[i].pc = "render",
                                     !.inv[i].found = call.files[name]]
           ELSE call' = [call EXCEPT !.inv[i].pc = "failed"]
    /\ UNCHANGED <<hubvars, active_tasks, task_results, tk, items, doneq, ncancel>>

\* render_video returns: _cleanup_files([video_file, audio_file]) and the
\* COMPLETED result
RenderFinish(i) ==
    /\ call.fn = "download_and_render"
    /\ call.inv[i].pc = "render"
    /\ call' = [call EXCEPT !.inv[i].pc = "done",
                            !.files = CleanupFiles(@, call.inv[i].task_id)]
    /\ UNCHANGED <<hubvars, active_tasks, task_results, tk, items, doneq, ncancel>>

\* int(time.time()) moves to the next second
RenderClockTick ==
    /\ call.fn = "download_and_render"
    /\ call.now < MaxClock
    /\ call' = [call EXCEPT !.now = @ + 1]
    /\ UNCHANGED <<hubvars, active_tasks, task_results, tk, items, doneq, ncancel>>

NextRender ==
    \/ \E i \in Renders : RenderBegin(i)
    \/ \E i \in Renders : RenderDownloaded(i)
    \/ \E i \in Renders : RenderFind(i)
    \/ \E i \in Renders : RenderFinish(i)
    \/ RenderClockTick

SpecRender == InitRender /\ [][NextRender]_vars

\* ---------------------------------------------- YouTubeProcessor.download_video
\* qualities next to the ceiling, on each side
QualityMargin == 20

\* DownloadRequest.quality, Field(ge=144, le=2160): the standard heights and
\* the values around the direct-download ceiling
DispatchQualities ==
    {q \in RouteQualities : 144 <= q /\ q <= 2160}
    \cup ((MAX_QUALITY_DIRECT - QualityMargin)..(MAX_QUALITY_DIRECT + QualityMargin))

\* A call of YouTubeProcessor.download_video(request) is about to be made;
\* call.calls lists the handler methods it awaits.
InitDispatch ==
    /\ IdleButCall
    /\ \E quality \in DispatchQualities :
          call = [fn |-> "download_video", quality |-> quality, pc |-> "entered",
                  calls |-> <<>>]

\* download_video chooses the processor and awaits one handler method
DownloadVideoDispatch ==
    /\ call.fn = "download_video"
    /\ call.pc = "entered"
    /\ call' = [call EXCEPT !.pc = "awaiting",
                            !.calls = Append(@, DownloadPath(call.quality))]
    /\ UNCHANGED <<hubvars, active_tasks, task_results, tk, items, doneq, ncancel>>

\* the handler method returns its DownloadResult, which download_video returns
DownloadVideoReturn ==
    /\ call.fn = "download_video"
    /\ call.pc = "awaiting"
    /\ call' = [call EXCEPT !.pc = "returned"]
    /\ UNCHANGED <<hubvars, active_tasks, task_results, tk, items, doneq, ncancel>>

NextDispatch ==
    \/ DownloadVideoDispatch
    \/ DownloadVideoReturn

SpecDispatch == InitDispatch /\ [][NextDispatch]_vars

\* ---------------------------------------------- YouTubeProcessor.download_batch
\* urls of a batch request
MaxBatch == 3

\* request.max_concurrent values below the number of urls
BatchLimits == 1..(MaxBatch - 1)

\* download_batch has run its for loop: asyncio.create_task has scheduled
\* one _download_with_error_isolation task per url, the semaphore has k free
\* slots, and gather has scheduled one limited_download wrapper per task
InitBatch ==
    /\ IdleButCall
    /\ \E n \in 1..MaxBatch, k \in BatchLimits :
          call = [fn |-> "download_batch", n |-> n, k |-> k,
                  task |-> [i \in 1..n |-> "created"],
                  wrap |-> [i \in 1..n |-> "wait"]]

\* the download tasks in self.download_video
ActiveDownloads(b) == {i \in 1..b.n : b.task[i] = "active"}

\* the wrappers inside 'async with semaphore'
Holding(b) == {i \in 1..b.n : b.wrap[i] = "held"}

\* the event loop runs the created task i: _download_with_error_isolation
\* enters self.download_video
DownloadTaskStart(i) ==
    /\ call.fn = "download_batch"
    /\ i \in 1..call.n
    /\ call.task[i] = "created"
    /\ call' = [call EXCEPT !.task[i] = "active"]
    /\ UNCHANGED <<hubvars, active_tasks, task_results, tk, items, doneq, ncancel>>

\* download_video returns or raises: task i is done
DownloadTaskDone(i) ==
    /\ call.fn = "download_batch"
    /\ i \in 1..call.n
    /\ call.task[i] = "active"
    /\ call' = [call EXCEPT !.task[i] = "done"]
    /\ UNCHANGED <<hubvars, active_tasks, task_results, tk, items, doneq, ncancel>>

\* limited_download(task i) acquires the semaphore and awaits the task; the
\* wrappers are scheduled behind the tasks created before them
LimitedDownloadEnter(i) ==
    /\ call.fn = "download_batch"
    /\ i \in 1..call.n
    /\ call.wrap[i] = "wait"
    /\ \A j \in 1..call.n : call.task[j] # "created"
    /\ Cardinality(Holding(call)) < call.k
    /\ call' = [call EXCEPT !.wrap[i] = "held"]
    /\ UNCHANGED <<hubvars, active_tasks, task_results, tk, items, doneq, ncancel>>

\* the awaited task is done: limited_download leaves 'async with' and returns
LimitedDownloadReturn(i) ==
    /\ call.fn = "download_batch"
    /\ i \in 1..call.n
    /\ call.wrap[i] = "held"
    /\ call.task[i] = "done"
    /\ call' = [call EXCEPT !.wrap[i] = "returned"]
    /\ UNCHANGED <<hubvars, active_tasks, task_results, tk, items, doneq, ncancel>>

NextBatch ==
    \/ \E i \in 1..MaxBatch : DownloadTaskStart(i)
    \/ \E i \in 1..MaxBatch : DownloadTaskDone(i)
    \/ \E i \in 1..MaxBatch : LimitedDownloadEnter(i)
    \/ \E i \in 1..MaxBatch : LimitedDownloadReturn(i)

SpecBatch == InitBatch /\ [][NextBatch]_vars

\* ------------------------------------------------------------------ claims
\* the copies of publish id that connection c has received
Copies(c, id) == Cardinality({i \in 1..Len(rx[c]) : rx[c][i].pub = id})

\* publish id has been made and its fan-out is over
Delivered(id) == id \in 1..Len(pubs) /\ ~InFlight(sendq, id)

\* C6: every member of every subscriber set is in the global connection set
\* (a connection removed from the global set is in no subscriber set, then
\* and later)
C6_SubscribersAreActive ==
    \A t \in DOMAIN task_subscribers : task_subscribers[t] \subseteq active_connections

\* C7: the subscription registry never maps a task id to an empty set
C7_NoEmptySubscriberSet ==
    \A t \in DOMAIN task_subscribers : task_subscribers[t] # {}

\* C8: a send_message to a connection that fails purges that connection from
\* the global connection set and from every subscriber set, and the other
\* targets of the same fan-out stay pending or have received the event
C8_FailedSendPurges ==
    [][\A c \in Conns :
          (SendStep(c) /\ wire[c] # "open") =>
             /\ c \notin active_connections'
             /\ \A t \in DOMAIN task_subscribers' : c \notin task_subscribers'[t]
             /\ \A d \in Head(sendq).pending \ {c} :
                    sendq' # <<>> /\ d \in Head(sendq').pending]_vars

\* C9: of a published progress event whose fan-out is over, every connection
\* that was subscribed to the task when it was published and is still open
\* has received exactly one copy, and a connection that was not subscribed
\* (it never subscribed, unsubscribed or disconnected before) has received
\* none
C9_OneCopyPerSubscriber ==
    \A id \in 1..Len(pubs) :
        (Delivered(id) /\ pubs[id].type = "progress") =>
            \A c \in Conns :
                /\ Copies(c, id) <= 1
                /\ (c \in pubs[id].subs /\ wire[c] = "open") => Copies(c, id) = 1
                /\ c \notin pubs[id].subs => Copies(c, id) = 0

\* C9's scenario: both connections received the first publish, connection 2
\* then disconnected, the second publish reached connection 1 alone
C9_Witness ==
    /\ Len(pubs) = 2
    /\ Delivered(1) /\ Delivered(2)
    /\ pubs[1].type = "progress" /\ pubs[2].type = "progress"
    /\ pubs[1].subs = {1, 2}
    /\ Copies(1, 1) = 1 /\ Copies(2, 1) = 1
    /\ hpc[2] = "exit"
    /\ 2 \notin active_connections
    /\ pubs[2].subs = {1}
    /\ Copies(1, 2) = 1 /\ Copies(2, 2) = 0

\* cancel_task has requested the cancellation of task t
Cancelled(t) == tk[t].must_cancel \/ tk[t].pc = "cancelled"

\* _download_requests_with_isolation of task t has created its item coroutines
ItemsStarted(t) == \E i \in Items : items[t][i] # "none"

\* item i of task t has come out of processor.download_video
Finished(t, i) == items[t][i] \in {"ok", "failed", "raise"}

\* the status a per-item result must carry for item i of task t
OwnStatus(t, i) == IF items[t][i] = "ok" THEN "completed" ELSE "failed"

\* the entries of a sequence of per-item results that belong to item i
Entries(rs, i) == {k \in 1..Len(rs) : rs[k].item = i}

Submitted(t) == tk[t].kind # "none"
Terminal(t) == GetTaskStatus(t).found /\ GetTaskStatus(t).status = "completed"
NonTerminal(t) == GetTaskStatus(t).found /\ GetTaskStatus(t).status = "running"

\* C1: with fair scheduling and external calls that return, a task that
\* get_task_status reports as running (as it does from submit on) is
\* eventually reported with a terminal status, and once a submitted task is
\* not reported as running it is never reported as running again, whatever
\* cancel_task and cleanup_completed_tasks calls are made
C1_EventuallyTerminal ==
    /\ \A t \in TaskIds : NonTerminal(t) ~> Terminal(t)
    /\ [][\A t \in TaskIds :
            (Submitted(t) /\ ~NonTerminal(t)) => ~NonTerminal(t)']_vars

\* C1's case: a task that was cancelled while it ran is reported terminal
C1_Witness ==
    \E t \in TaskIds : Terminal(t) /\ GetTaskStatus(t).cancelled

\* C2: never more than K items of a batch or playlist are inside
\* processor.download_video, K being max_concurrent or the global default
C2_AtMostKRunning ==
    \A t \in TaskIds :
        ItemsStarted(t) => Cardinality(Running(items, t)) <= SemaphoreSize(tk[t].mc)

\* C2's case: 3 items, limit 2: two run and the third waits
C2_Witness ==
    \E t \in TaskIds :
        /\ tk[t].n = 3 /\ tk[t].mc = 2
        /\ Cardinality(Running(items, t)) = 2
        /\ \E i \in Items : items[t][i] = "wait"

\* C3: every finished item has exactly one result, which says COMPLETED
\* exactly when that item's own download succeeded; no item's failure reaches
\* the aggregation loop as an exception, and an aggregate recorded after the
\* items ran has one such result for every item
C3_ErrorIsolation ==
    \A t \in TaskIds :
        /\ \A k \in 1..Len(doneq[t]) :
              /\ ~doneq[t][k].exc
              /\ doneq[t][k].status = OwnStatus(t, doneq[t][k].item)
        /\ \A k \in 1..Len(tk[t].results) :
              tk[t].results[k].status = OwnStatus(t, tk[t].results[k].item)
        /\ \A i \in Items :
              Finished(t, i) =>
                 Cardinality(Entries(doneq[t], i)) + Cardinality(Entries(tk[t].results, i)) = 1
        /\ (t \in DOMAIN task_results /\ ItemsStarted(t)) =>
              \A i \in 1..tk[t].n :
                 /\ Cardinality(Entries(task_results[t].results, i)) = 1
                 /\ \A k \in Entries(task_results[t].results, i) :
                       task_results[t].results[k].status = OwnStatus(t, i)

\* C3's case: item 1 raised, item 2 failed, item 3 succeeded, and the
\* aggregate has the three results
C3_Witness ==
    \E t \in TaskIds :
        /\ t \in DOMAIN task_results
        /\ items[t][1] = "raise" /\ items[t][2] = "failed" /\ items[t][3] = "ok"
        /\ Len(task_results[t].results) = 3
        /\ task_results[t].successful_downloads = 1

\* C4: the aggregate recorded for a batch or playlist whose items were
\* started has one result per item, len(results) = total_videos = N,
\* successful_downloads = the number of COMPLETED results, and
\* successful_downloads + failed_downloads = total_videos
C4_AggregateCounts ==
    \A t \in DOMAIN task_results :
        LET r == task_results[t] IN
        (r.kind \in {"batch", "playlist"} /\ ItemsStarted(t)) =>
            /\ Len(r.results) = r.total_videos
            /\ r.total_videos = tk[t].n
            /\ {r.results[k].item : k \in 1..Len(r.results)} = 1..tk[t].n
            /\ r.successful_downloads =
                  Cardinality({k \in 1..Len(r.results) : r.results[k].status = "completed"})
            /\ r.successful_downloads + r.failed_downloads = r.total_videos

\* C4's case: a batch of 3 with limit 2 and one failing download: 2
\* successful, 1 failed, 3 results
C4_Witness ==
    \E t \in DOMAIN task_results :
        /\ tk[t].kind = "batch" /\ tk[t].mc = 2
        /\ task_results[t].total_videos = 3
        /\ task_results[t].successful_downloads = 2
        /\ task_results[t].failed_downloads = 1
        /\ Len(task_results[t].results) = 3

\* C5: every event published for a task is received exactly once by each
\* connection that was subscribed when it was published (and is still open),
\* and each connection receives the events in the order they were published
C5_ExactlyOnceInOrder ==
    /\ \A id \in 1..Len(pubs) :
          Delivered(id) =>
             \A c \in pubs[id].targets : wire[c] = "open" => Copies(c, id) = 1
    /\ \A c \in Conns : \A i, j \in 1..Len(rx[c]) :
          (i < j /\ rx[c][i].pub > 0 /\ rx[c][j].pub > 0) => rx[c][i].pub < rx[c][j].pub

\* C10: once cancel_task has requested the cancellation of a batch or
\* playlist task, no item of it that still waits for a semaphore slot enters
\* processor.download_video, and nothing is recorded in task_results for it
C10_NoStartAfterCancel ==
    [][\A t \in TaskIds :
          Cancelled(t) =>
             /\ \A i \in Items : items[t][i] = "wait" => items'[t][i] = "wait"
             /\ (t \notin DOMAIN task_results => t \notin DOMAIN task_results')]_vars

\* task t was submitted and its execution routine has neither returned nor
\* been cancelled
StillRunning(t) == Submitted(t) /\ tk[t].pc \notin {"done", "cancelled"}

\* the last publish is the status label ev of task t
LastPublished(P, t, ev) ==
    /\ P # <<>>
    /\ P[Len(P)].task = t /\ P[Len(P)].type = "status" /\ P[Len(P)].ev = ev

\* C11: cancel_task of a task that is still running requests the
\* cancellation of its execution, publishes one 'cancelled' status and
\* returns true; of an unknown task id or a task whose execution has finished
\* it returns false, requests nothing and publishes nothing
C11_CancelContract ==
    [][\A t \in TaskIds :
          CancelTask(t) =>
             IF StillRunning(t)
             THEN /\ call'.ret = "True"
                  /\ tk'[t].must_cancel
                  /\ Len(pubs') = Len(pubs) + 1
                  /\ LastPublished(pubs', t, "cancelled")
             ELSE /\ call'.ret = "False"
                  /\ UNCHANGED <<hubvars, active_tasks, task_results, tk, items, doneq>>]_vars

\* C11's case: cancel_task returned true for a running task, whose
\* cancellation is requested and whose 'cancelled' status is published
C11_Witness ==
    \E t \in TaskIds :
        /\ call.fn = "cancel_task" /\ call.ret = "True"
        /\ tk[t].must_cancel
        /\ LastPublished(pubs, t, "cancelled")

\* the status and error events published for task t, in order
EventsOf(P, t) == SelectSeq(P, LAMBDA e : e.task = t /\ e.type \in {"status", "error"})

\* a terminal event (completed, cancelled or an error) was published for t
TerminalPublished(t) ==
    \E k \in 1..Len(pubs) :
        /\ pubs[k].task = t
        /\ \/ pubs[k].type = "error"
           \/ pubs[k].type = "status" /\ pubs[k].ev \in {"completed", "cancelled"}

\* C12: terminal outcomes are sinks.  After a terminal event of a task was
\* published no status or error event is published for it, and once the
\* task's Result is recorded cancel_task neither requests its cancellation
\* nor publishes 'cancelled' for it, and its execution does not end cancelled
C12_TerminalIsSink ==
    [][\A t \in TaskIds :
          /\ TerminalPublished(t) => EventsOf(pubs', t) = EventsOf(pubs, t)
          /\ t \in DOMAIN task_results =>
                /\ tk'[t].must_cancel => tk[t].must_cancel
                /\ ~(Len(pubs') > Len(pubs) /\ LastPublished(pubs', t, "cancelled"))
                /\ tk'[t].pc # "cancelled"]_vars

\* the place of an event in started -> extracting -> downloading ->
\* (completed | error | cancelled)
Rank(e) ==
    CASE e.type = "error" -> 3
      [] e.ev = "started" -> 0
      [] e.ev = "extracting" -> 1
      [] e.ev = "downloading" -> 2
      [] OTHER -> 3

\* C13: the status labels (and error events) published for a task only move
\* forward along started -> extracting -> downloading -> (completed | error |
\* cancelled); 'downloading' may repeat
C13_LabelsMoveForward ==
    \A t \in TaskIds :
        LET E == EventsOf(pubs, t) IN
        \A i, j \in 1..Len(E) : i < j => Rank(E[i]) <= Rank(E[j])

\* C13's case: a playlist was cancelled after the aggregate update of its
\* first item: started, extracting, downloading, downloading, cancelled
C13_Witness ==
    \E t \in TaskIds :
        LET E == EventsOf(pubs, t) IN
        /\ tk[t].kind = "playlist"
        /\ Len(E) = 5
        /\ E[1].ev = "started" /\ E[2].ev = "extracting" /\ E[3].ev = "downloading"
        /\ E[4].ev = "downloading"
        /\ E[5].ev = "cancelled"

\* task t is a single task whose external calls all succeeded
SingleCompleted(t) ==
    /\ tk[t].kind = "single"
    /\ t \in DOMAIN task_results
    /\ IsCompleted(task_results[t])

\* the status labels published for task t, in order
Labels(t) == [k \in 1..Len(EventsOf(pubs, t)) |-> EventsOf(pubs, t)[k].ev]

\* C14: a single task of a quality above the direct-download ceiling whose
\* external calls all succeed shows a RENDERING status between DOWNLOADING
\* and COMPLETED: while render_video runs the task's status is 'rendering',
\* and the labels published for the completed task include 'rendering'
\* after 'downloading'
C14_RenderingVisited ==
    \A t \in TaskIds :
        /\ tk[t].pc = "render" =>
              \/ GetTaskStatus(t).status = "rendering"
              \/ LastPublished(pubs, t, "rendering")
        /\ (SingleCompleted(t) /\ tk[t].quality > MAX_QUALITY_DIRECT) =>
              \E i, j \in 1..Len(Labels(t)) :
                  i < j /\ Labels(t)[i] = "downloading" /\ Labels(t)[j] = "rendering"

\* C15: a single task whose quality is at or below the direct-download
\* ceiling is routed to the direct-download handler, never waits in
\* render_video, is never published as 'rendering', and when its external
\* calls succeed its labels are started, extracting, downloading, completed
C15_DirectPathNoRender ==
    \A t \in TaskIds :
        (tk[t].kind = "single" /\ tk[t].quality <= MAX_QUALITY_DIRECT) =>
            /\ tk[t].path \in {"none", "pytube.download_video"}
            /\ tk[t].pc # "render"
            /\ \A k \in 1..Len(Labels(t)) : Labels(t)[k] # "rendering"
            /\ SingleCompleted(t) =>
                  /\ tk[t].path = "pytube.download_video"
                  /\ Len(Labels(t)) >= 4
                  /\ SubSeq(Labels(t), 1, 4) =
                        <<"started", "extracting", "downloading", "completed">>

\* C15's case: a 480p single task has completed through the direct path
C15_Witness ==
    \E t \in TaskIds :
        /\ tk[t].quality = 480
        /\ SingleCompleted(t)
        /\ tk[t].pc = "done"
        /\ tk[t].path = "pytube.download_video"
        /\ Labels(t) = <<"started", "extracting", "downloading", "completed">>

\* C16: determine_processor(quality, operation) always returns a backend:
\* pytube exactly when the operation is download or stream and quality <=
\* MAX_QUALITY_DIRECT, yt-dlp for download or stream above the ceiling, for
\* metadata, extract, info, subtitles, thumbnail, captions and for every
\* operation it does not know, whatever the quality
C16_DetermineProcessor ==
    (call.fn = "determine_processor" /\ call.ret # "none") =>
        /\ call.ret \in {"pytube", "yt-dlp"}
        /\ call.ret = "pytube" <=>
              /\ call.operation \in {"download", "stream"}
              /\ call.quality <= MAX_QUALITY_DIRECT
        /\ call.operation \notin {"download", "stream"} => call.ret = "yt-dlp"

\* C16's case: an unknown operation at a direct-download quality went to
\* yt-dlp
C16_Witness ==
    /\ call.fn = "determine_processor"
    /\ call.operation = "convert" /\ call.quality = 480
    /\ call.ret = "yt-dlp"

\* an error event with text error was published for task t by its routine
ErrorPublished(t, error) ==
    \E k \in 1..Len(pubs) :
        /\ pubs[k].task = t /\ pubs[k].type = "error"
        /\ pubs[k].ev = error /\ pubs[k].owner = t

\* C17: no exception leaves an execution routine: a routine that has ended
\* without being cancelled has returned with a Result recorded in
\* task_results, and a routine ends cancelled only after cancel_task
\* requested it
C17_NoExceptionEscapes ==
    \A t \in TaskIds :
        /\ tk[t].pc = "done" => t \in DOMAIN task_results
        /\ tk[t].pc = "cancelled" =>
              \E k \in 1..Len(pubs) :
                  /\ pubs[k].task = t /\ pubs[k].ev = "cancelled" /\ pubs[k].owner = 0

\* C17's case: asyncio.Semaphore(-1) raised ValueError in a batch, whose
\* routine has returned with a Result recorded and the error published
C17_Witness ==
    \E t \in TaskIds :
        /\ tk[t].kind = "batch" /\ tk[t].mc = -1
        /\ tk[t].pc = "done"
        /\ t \in DOMAIN task_results
        /\ ErrorPublished(t, "ValueError")

\* C18: whenever a step of a task's execution has raised (the routine has
\* published the error), the Result recorded for the task is FAILED and
\* carries that error, for single, playlist and batch tasks
C18_FailedResultCarriesError ==
    \A t \in TaskIds : \A k \in 1..Len(pubs) :
        (pubs[k].task = t /\ pubs[k].type = "error" /\ pubs[k].owner = t) =>
            /\ t \in DOMAIN task_results
            /\ task_results[t].status = "failed"
            /\ task_results[t].error = pubs[k].ev

\* C19: for a task whose execution routine has finished with a recorded
\* Result, get_task_status returns a snapshot with the completion flag and
\* with that Result, before and after cleanup_completed_tasks
C19_SnapshotHasResult ==
    \A t \in TaskIds :
        (tk[t].pc = "done" /\ t \in DOMAIN task_results) =>
            /\ GetTaskStatus(t).found
            /\ GetTaskStatus(t).done
            /\ GetTaskStatus(t).result

C21_CleanupFrame ==
    [][CleanupCompletedTasks =>
          /\ active_tasks' = {t \in active_tasks : StillRunning(t)}
          /\ \A t \in active_tasks \ active_tasks' : tk[t].pc \in {"done", "cancelled"}
          /\ task_results' = task_results]_vars

\* C21's case: the handle of a finished task was evicted and its Result is
\* still stored
C21_Witness ==
    \E t \in TaskIds :
        /\ tk[t].pc = "done"
        /\ t \notin active_tasks
        /\ t \in DOMAIN task_results

\* C22: connect called with WS_MAX_CONNECTIONS or more active connections
\* returns false, sends nothing and leaves the connection set, the
\* subscription registry and the lifetime counter as they were; called with
\* fewer it accepts, and then registers the connection, adds exactly one to
\* the lifetime counter and sends one welcome to it (a welcome that cannot
\* be sent to a client that is gone unregisters the connection again)
C22_ConnectContract ==
    [][\A c \in Conns :
          /\ ConnectBegin(c) =>
                /\ hpc'[c] = "rejected" <=> Cardinality(active_connections) >= WS_MAX_CONNECTIONS
                /\ hpc'[c] = "accept" <=> Cardinality(active_connections) < WS_MAX_CONNECTIONS
                /\ UNCHANGED <<active_connections, task_subscribers, connection_count,
                               rx, sendq, pubs>>
          /\ hpc[c] = "rejected" =>
                /\ rx'[c] = <<>>
                /\ c \notin active_connections'
                /\ \A t \in DOMAIN task_subscribers' : c \notin task_subscribers'[t]
          /\ ConnectFinish(c) =>
                /\ connection_count' = connection_count + 1
                /\ hpc'[c] = "loop"
                /\ \A d \in Conns \ {c} : rx'[d] = rx[d]
                /\ IF wire[c] = "open"
                   THEN /\ active_connections' = active_connections \cup {c}
                        /\ rx'[c] = Append(rx[c], Welcome)
                        /\ task_subscribers' = task_subscribers
                   ELSE /\ active_connections' = active_connections \ {c}
                        /\ rx'[c] = rx[c]]_vars

\* C22's case: two connections were accepted and welcomed, the third was
\* rejected and received nothing
C22_Witness ==
    /\ hpc[1] = "loop" /\ hpc[2] = "loop" /\ hpc[3] = "rejected"
    /\ active_connections = {1, 2}
    /\ connection_count = 2
    /\ rx[1] = <<Welcome>> /\ rx[2] = <<Welcome>> /\ rx[3] = <<>>

\* connection c has no subscription to task t in registry ts
NotSubscribed(ts, c, t) == t \notin DOMAIN ts \/ c \notin ts[t]

\* C23: unsubscribe of a connection that has no subscription to the task
\* (or of a task without an entry) and disconnect of a connection that is
\* not connected leave the connection set and the subscription registry as
\* they were, and either operation applied twice gives what it gives once
C23_NoOpAndIdempotent ==
    [][\A c \in Conns :
          /\ \A t \in TaskIds :
                /\ (ClientUnsubscribe(c, t) /\ NotSubscribed(task_subscribers, c, t)) =>
                      UNCHANGED <<active_connections, task_subscribers>>
                /\ UnsubscribeFromTask(UnsubscribeFromTask(Hub, c, t), c, t) =
                      UnsubscribeFromTask(Hub, c, t)
          /\ c \notin active_connections => Disconnect(Hub, c) = Hub
          /\ Disconnect(Disconnect(Hub, c), c) = Disconnect(Hub, c)]_vars

\* C24: a publish for a task that has no subscriber at that moment sends
\* nothing, queues nothing and changes no registry state, and no connection
\* ever receives it, whether it subscribes to the task afterwards or not
C24_UnwatchedPublishDropped ==
    [][/\ \A t \in TaskIds :
            (Publish("progress", t) /\ Subscribers(Hub, t) = {}) =>
                UNCHANGED <<active_connections, task_subscribers, connection_count, sendq, rx>>
       /\ \A id \in 1..Len(pubs') :
            pubs'[id].targets = {} =>
                /\ ~InFlight(sendq', id)
                /\ \A c \in Conns : \A k \in 1..Len(rx'[c]) : rx'[c][k].pub # id]_vars

\* C24's case: a connection subscribed to a task after an event of that task
\* was published to nobody; it has the subscription confirmation and not
\* the event
C24_Witness ==
    \E c \in Conns, t \in TaskIds :
        /\ Len(pubs) >= 1
        /\ pubs[1].task = t /\ pubs[1].type = "progress" /\ pubs[1].targets = {}
        /\ c \in Subscribers(Hub, t)
        /\ \E k \in 1..Len(rx[c]) : rx[c][k].type = "subscription"
        /\ Copies(c, 1) = 0

\* the videos of list s at the positions lo..hi (counted from 0)
Window(s, lo, hi) == SubSeq(s, Max(lo, 0) + 1, Min(hi + 1, Len(s)))

\* at most m videos from the front of list s
Truncate(s, m) == SubSeq(s, 1, Min(Max(m, 0), Len(s)))

\* the selection policy: all videos or the listed ones in listed order, then
\* the start/end index window, then the truncation to max_downloads
ReferenceSelection(videos, r) ==
    LET base == IF r.download_all THEN videos ELSE Listed(videos, r.selected_videos)
        lo == IF r.start_index # <<>> THEN r.start_index[1] ELSE 0
        hi == IF r.end_index # <<>> THEN r.end_index[1] ELSE Len(base) - 1
        windowed == Window(base, lo, hi)
    IN  IF r.max_downloads # <<>> THEN Truncate(windowed, r.max_downloads[1]) ELSE windowed

\* C25: _select_playlist_videos returns what the selection policy gives: all
\* videos or the videos at the listed indices in listed order (indices out
\* of range ignored), then the window start_index..end_index, then at most
\* max_downloads of them, whichever of the three are present
C25_SelectionIsReference ==
    (call.fn = "_select_playlist_videos" /\ call.returned) =>
        call.ret = ReferenceSelection(call.videos, call.request)

\* the error events published for task t
ErrorsOf(P, t) == SelectSeq(P, LAMBDA e : e.task = t /\ e.type = "error")

\* the aggregate of a playlist that failed before any item started
EmptyAggregate(r) ==
    /\ r.kind = "playlist"
    /\ r.total_videos = 0 /\ r.successful_downloads = 0 /\ r.failed_downloads = 0
    /\ r.results = <<>>

\* C26: when a playlist's metadata extraction raises, or its URL resolves to
\* a single video, the task records an empty aggregate (0 videos, 0
\* successful, 0 failed, no per-item result) and publishes one error event;
\* it has started no item download, and none of that changes afterwards
C26_PlaylistFailsEmpty ==
    [][\A t \in TaskIds :
          /\ (tk[t].kind = "playlist" /\
               (ExtractReturns(t, "raise", 0) \/ ExtractReturns(t, "video", 0))) =>
                /\ t \in DOMAIN task_results'
                /\ Len(ErrorsOf(pubs', t)) = 1
          /\ (tk[t].kind = "playlist" /\ ErrorsOf(pubs', t) # <<>>) =>
                /\ t \in DOMAIN task_results'
                /\ EmptyAggregate(task_results'[t])
                /\ Len(ErrorsOf(pubs', t)) = 1
                /\ \A i \in Items : items'[t][i] = "none"]_vars

\* C26's case: a playlist task whose URL resolved to a single video has
\* ended with an empty aggregate and its error published, no item started
C26_Witness ==
    \E t \in TaskIds :
        /\ tk[t].kind = "playlist" /\ tk[t].pc = "done"
        /\ ErrorPublished(t, "ValueError")
        /\ t \in DOMAIN task_results /\ EmptyAggregate(task_results[t])
        /\ ~ItemsStarted(t)

\* the aggregate updates published for task t: the 'downloading' statuses
\* of the as_completed loop, in order
AggregateUpdates(P, t) ==
    SelectSeq(P, LAMBDA e : e.task = t /\ e.type = "status" /\ e.ev = "downloading"
                            /\ e.owner = t /\ e.n # 0)

\* C27: in a batch or playlist run the aggregate 'downloading' updates
\* report 1, 2, ... in that order, one for each item result the loop has
\* collected and never more than the items that have finished; when the
\* run's aggregate is recorded there are N of them and the last reports N
C27_AggregateUpdatesCount ==
    \A t \in TaskIds :
        LET A == AggregateUpdates(pubs, t) IN
        /\ \A k \in 1..Len(A) : A[k].n = k
        /\ Len(A) = Len(tk[t].results)
        /\ Len(A) <= Cardinality({i \in Items : Finished(t, i)})
        /\ (t \in DOMAIN task_results /\ ItemsStarted(t)) =>
              /\ Len(A) = tk[t].n
              /\ A[Len(A)].n = tk[t].n

\* C27's case: a batch of 3 items, one of which failed, has ended and its
\* updates reported 1, 2, 3
C27_Witness ==
    \E t \in TaskIds :
        /\ tk[t].kind = "batch" /\ tk[t].n = 3 /\ tk[t].pc = "done"
        /\ \E i \in Items : items[t][i] = "failed"
        /\ Len(AggregateUpdates(pubs, t)) = 3
        /\ AggregateUpdates(pubs, t)[3].n = 3

\* C28: any two task ids generated during one process lifetime are
\* different
C28_TaskIdsDiffer ==
    call.fn = "_generate_task_id" =>
        \A i, j \in 1..Len(call.ids) : i # j => call.ids[i] # call.ids[j]

\* publish id is a heartbeat
IsHeartbeat(id) == id \in 1..Len(pubs) /\ pubs[id].type = "heartbeat"

\* C29: the heartbeat loop keeps cycling.  Each cycle that finds a connection
\* sends a heartbeat carrying the current number of active connections to
\* every active connection; every heartbeat's fan-out comes to an end,
\* whether its sends succeed or fail, with one copy at each target still
\* open; and as long as a connection is active the loop goes on to the next
\* heartbeat (up to the MaxPubs publishes of the model)
C29_HeartbeatKeepsCycling ==
    /\ [][(Heartbeat /\ active_connections # {}) =>
             /\ IsHeartbeat(Len(pubs))'
             /\ pubs'[Len(pubs')].targets = active_connections
             /\ pubs'[Len(pubs')].n = Cardinality(active_connections)]_vars
    /\ \A id \in 1..MaxPubs :
          IsHeartbeat(id) ~>
             /\ Delivered(id)
             /\ \A c \in pubs[id].targets : wire[c] = "open" => Copies(c, id) = 1
    /\ []<>(active_connections = {} \/ Len(pubs) = MaxPubs)

\* C29's case: a heartbeat for two connections, one of them gone, has been
\* delivered to the other, and the next heartbeat was sent to the one left
C29_Witness ==
    /\ Len(pubs) = 2
    /\ IsHeartbeat(1) /\ IsHeartbeat(2)
    /\ pubs[1].targets = {1, 2} /\ pubs[1].n = 2
    /\ wire[2] = "closed" /\ Copies(1, 1) = 1 /\ Copies(2, 1) = 0
    /\ pubs[2].targets = {1} /\ pubs[2].n = 1
    /\ Delivered(2) /\ Copies(1, 2) = 1

\* C30: a well-formed message of an unrecognized type, received on an open
\* connection, puts exactly one error event naming its type on that
\* connection, which stays registered with its handler still receiving
C30_UnrecognizedYieldsError ==
    [][\A c \in Conns, m \in ClientMessages :
         (ClientOther(c, m) /\ wire[c] = "open") =>
            /\ rx'[c] = Append(rx[c], UnknownType(m))
            /\ c \in active_connections'
            /\ hpc'[c] = "loop"]_vars

\* the event types of the outbound envelope
EventTypes == {"progress", "status", "error", "metadata", "heartbeat", "pong", "stats"}

\* C31: every event a connection has been sent has one of the types of the
\* outbound envelope
C31_OutboundTypes ==
    \A c \in Conns : \A k \in 1..Len(rx[c]) : rx[c][k].type \in EventTypes

\* C32: however the connect calls interleave around accept(), the set of
\* active connections never holds more than WS_MAX_CONNECTIONS connections
C32_CapacityBound == Cardinality(active_connections) <= WS_MAX_CONNECTIONS

\* C34: a connect call that returns True leaves its connection in the set
\* of active connections
C34_AcceptedIsActive ==
    [][\A c \in Conns : ConnectFinish(c) => c \in active_connections']_vars

\* C33: get_task_status finds every task that a submit operation has
\* returned the id of, whatever cancel_task and cleanup_completed_tasks calls
\* were made since
C33_SubmittedIsFound == \A t \in TaskIds : Submitted(t) => GetTaskStatus(t).found

\* class DownloadStatus(str, Enum)
DownloadStatus ==
    {"pending", "extracting", "downloading", "rendering", "completed", "failed", "cancelled"}

\* C35: the status of every snapshot get_task_status returns is a member of
\* DownloadStatus, for running, finished and cancelled tasks
C35_SnapshotStatusInEnum ==
    \A t \in TaskIds : GetTaskStatus(t).found => GetTaskStatus(t).status \in DownloadStatus

\* C36: in download_batch with more items than the concurrency limit, the
\* item downloads in execution never outnumber the limit
C36_ActiveWithinLimit ==
    (call.fn = "download_batch" /\ call.k < call.n) =>
        Cardinality(ActiveDownloads(call)) <= call.k

\* C37: with start_index = s and end_index = e, 0 <= s <= e, and no
\* max_downloads, _select_playlist_videos returns the videos at the positions
\* s..e of the list the index-list/all step produced, at most e - s + 1
C37_WindowIsInclusive ==
    (/\ call.fn = "_select_playlist_videos" /\ call.returned
     /\ call.request.start_index # <<>> /\ call.request.end_index # <<>>
     /\ call.request.max_downloads = <<>>
     /\ 0 <= call.request.start_index[1]
     /\ call.request.start_index[1] <= call.request.end_index[1]) =>
        LET r == call.request
            base == IF r.download_all THEN call.videos
                    ELSE Listed(call.videos, r.selected_videos)
        IN  /\ call.ret = Window(base, r.start_index[1], r.end_index[1])
            /\ Len(call.ret) <= r.end_index[1] - r.start_index[1] + 1

\* invocation i of download_and_render is between its entry and its return
RenderInProgress(i) == call.inv[i].pc \in {"download", "downloaded", "render"}

\* C38: two download_and_render invocations in progress at the same time use
\* different temporary files, and the files an invocation finds, renders and
\* deletes were written by its own downloads only
C38_TempFilesNotShared ==
    call.fn = "download_and_render" =>
        /\ \A i, j \in Renders :
              (i # j /\ RenderInProgress(i) /\ RenderInProgress(j)) =>
                  call.inv[i].task_id # call.inv[j].task_id
        /\ \A i \in Renders :
              call.inv[i].pc \in {"render", "done"} => call.inv[i].found = {i}

\* C39: download_video awaits exactly one handler method per request: the
\* pytube download when quality <= MAX_QUALITY_DIRECT, the yt-dlp
\* download_and_render when quality > MAX_QUALITY_DIRECT, and never the
\* yt-dlp download_video
C39_DispatchFollowsRouting ==
    call.fn = "download_video" =>
        /\ Len(call.calls) = (IF call.pc = "entered" THEN 0 ELSE 1)
        /\ \A k \in 1..Len(call.calls) :
              /\ call.calls[k] # "ytdlp.download_video"
              /\ call.calls[k] = IF call.quality <= MAX_QUALITY_DIRECT
                                 THEN "pytube.download_video"
                                 ELSE "ytdlp.download_and_render"

\* C39's case: a request one step above the ceiling has returned from the
\* rendering path, its only call
C39_Witness ==
    /\ call.fn = "download_video"
    /\ call.quality = MAX_QUALITY_DIRECT + 1
    /\ call.pc = "returned"
    /\ call.calls = <<"ytdlp.download_and_render">>

====
